---- MODULE Spec2Model ----
(***************************************************************************)
(* VesiKolay Pro: the photo standardisation pipeline.                      *)
(*                                                                         *)
(* A Python number is kept as an exact decimal fraction [num, den] (3.5 is *)
(* [35, 10]), so that the values a user can type stay integers.  Python's  *)
(* int(<float expression>) is modelled by Trunc: the floor of the exact    *)
(* value, except that when the exact value is an integer and an operand    *)
(* had to be rounded, the float result may land just below it and truncate *)
(* to one less (90 * 0.7 is 62.99..., int() gives 62); which of the two    *)
(* happens is the parameter e of the operators, chosen by the actions.     *)
(***************************************************************************)
EXTENDS Integers, Sequences, FiniteSets, TLC

VARIABLES
    ui,          \* the widgets get_size_configuration / process_single_photo read
    size_config, \* what get_size_configuration returned (or raised)
    dimensions,  \* the CropDimensions in use
    pixels,      \* result of CropDimensions.to_pixels
    image,       \* the source photo: size on disk, pixel size, detected faces
    crop,        \* the planned crop region
    paste,       \* compositor geometry of the last compose
    outfile,     \* the file at the .jpg output path the caller passed
    sidefile,    \* the file at the same path with the source's suffix
    opt,         \* locals of optimize_file_size
    success,     \* the success flag of process_single_photo
    stages,      \* the stages the current photo went through, in order
    events,      \* number of UI events so far
    batch,       \* locals of crop_and_resize_photos and the output directory
    app,         \* the Tk side: buttons, cancel container, progress, threads
    pc           \* position of the running operation

vars == <<ui, size_config, dimensions, pixels, image, crop, paste, outfile,
          sidefile, opt, success, stages, events, batch, app, pc>>

\* ------------------------------------------------------------------ bounds

\* custom lengths tried besides the preset ones: 0.5, 1.0, ... MaxHalfUnits/2
MaxHalfUnits == 8
\* dpi values tried: 100, 200, ... 100 * MaxDpiHundreds
MaxDpiHundreds == 4
\* UI events (key strokes, selections) before an operation is started
MaxUiEvents == 3
\* source images of the planner study are 1..MaxImage pixels wide and high
MaxImage == 4
\* targets of the planner study are 1..MaxTarget pixels wide and high
MaxTarget == 3
\* source photos of the pipeline are 600a x 800a pixels, a in 1..MaxSourceScale
MaxSourceScale == 2
\* calls of optimize_file_size made in a row on one file
MaxCalls == 3
\* photos in the input directory of a batch
MaxPhotos == 3
\* rows of the Excel sheet a batch names its photos from
MaxRows == 3

\* ------------------------------------------------------------ arithmetic

Max(a, b) == IF a >= b THEN a ELSE b
Min(a, b) == IF a <= b THEN a ELSE b
Abs(a) == IF a >= 0 THEN a ELSE 0 - a

\* the two outcomes of a float rounding: 0 = exact or above, 1 = just below
FpOutcomes == {0, 1}

RECURSIVE Gcd(_, _)
Gcd(a, b) == IF b = 0 THEN a ELSE Gcd(b, a % b)

RECURSIVE IsPowerOfTwo(_)
IsPowerOfTwo(n) == n = 1 \/ (n > 1 /\ n % 2 = 0 /\ IsPowerOfTwo(n \div 2))

\* the float a / b is the exact quotient (its reduced denominator is a
\* power of two), so products and quotients of it by an int are exact too
FloatExact(a, b) == a = 0 \/ IsPowerOfTwo(b \div Gcd(a, b))

\* int(p / q) for the exact value p / q of a float expression, p >= 0, q > 0;
\* exact says the float arithmetic had nothing to round
Trunc(p, q, exact, e) ==
    IF p % q = 0 /\ p > 0 /\ ~exact /\ e = 1 THEN (p \div q) - 1 ELSE p \div q

\* int(c * (a / b)) and int((a / b) * c)
TruncMul(c, a, b, e) == Trunc(c * a, b, FloatExact(a, b), e)

\* int(c / (a / b))
TruncQuot(c, a, b, e) == Trunc(c * b, a, FloatExact(a, b), e)

\* the outcomes e that make a difference to Trunc(p, q, exact, e)
TruncChoices(p, q, exact) ==
    IF p % q = 0 /\ p > 0 /\ ~exact THEN FpOutcomes ELSE {0}
MulChoices(c, a, b) == TruncChoices(c * a, b, FloatExact(a, b))
QuotChoices(c, a, b) == TruncChoices(c * b, a, FloatExact(a, b))

\* n is p / q rounded to a nearest integer (either neighbour at a tie)
RoundedTo(n, p, q) == Abs(2 * (n * q - p)) <= q

\* a Python number with the decimal value n / d
Num(n, d) == [num |-> n, den |-> d]
Whole(n) == Num(n, 1)

\* -------------------------------------------------------- CropDimensions

Units == {"px", "mm", "cm"}

NoMinDpi == 0

PresetLengths == {Whole(25), Whole(35), Whole(45), Whole(50), Whole(60)}

Lengths == PresetLengths \cup {Num(5 * k, 10) : k \in 1..MaxHalfUnits}

DpiValues == {100 * k : k \in 1..MaxDpiHundreds}

CropDimensions(width, height, unit, dpi, min_dpi) ==
    [width |-> width, height |-> height, unit |-> unit, dpi |-> dpi,
     min_dpi |-> min_dpi]

\* _mm_to_px with an inch of 25 mm
MmToPxInch25(d, mm, e) == Trunc(d.dpi * mm.num, 25 * mm.den, FALSE, e)

\* _mm_to_px: int((mm / 25.4) * self.dpi); 25.4 is no exact float
MmToPx(d, mm, e) == Trunc(d.dpi * mm.num * 10, 254 * mm.den, FALSE, e)

\* _cm_to_px: int((cm / 2.54) * self.dpi); 2.54 is no exact float
CmToPx(d, cm, e) == Trunc(d.dpi * cm.num * 100, 254 * cm.den, FALSE, e)

\* to_pixels: the px and the unknown-unit branch pass the values through
\* (they are ints there: process_single_photo builds a px spec with int())
ToPixels(d, ew, eh) ==
    IF d.unit = "mm" THEN <<MmToPx(d, d.width, ew), MmToPx(d, d.height, eh)>>
    ELSE IF d.unit = "cm" THEN <<CmToPx(d, d.width, ew), CmToPx(d, d.height, eh)>>
    ELSE <<d.width.num, d.height.num>>

\* every pair to_pixels may return for d
PixelSizes(d) ==
    LET Choices(v) ==
            IF d.unit = "mm"
            THEN TruncChoices(d.dpi * v.num * 10, 254 * v.den, FALSE)
            ELSE IF d.unit = "cm"
            THEN TruncChoices(d.dpi * v.num * 100, 254 * v.den, FALSE)
            ELSE {0}
    IN  {ToPixels(d, ew, eh) : ew \in Choices(d.width), eh \in Choices(d.height)}

\* ------------------------------------------------------------ idle values

NoDimensions == CropDimensions(Whole(0), Whole(0), "px", 0, NoMinDpi)
NoPixels == <<0, 0>>
NoConfig == [status |-> "none"]
NoImage == [exists |-> FALSE]
NoCrop == [x |-> 0, y |-> 0, w |-> 0, h |-> 0]
NoPaste == [branch |-> "none"]
NoFile == [exists |-> FALSE]
NoOpt == [quality |-> 0]
NoBatch == [running |-> FALSE]
\* the window with no operation running: the buttons as enable_all_buttons
\* leaves them, the cancel container not packed, no thread, nothing queued
NoApp == [crop_resize_button |-> "normal", action_buttons |-> "normal",
          cancel_shown |-> FALSE, progress |-> 0,
          current_operation |-> "None", others |-> 0, after |-> 0,
          scheduled |-> 0, ready |-> TRUE]

\* ------------------------------------------------- the text of an Entry

\* a text is a sequence of characters; the keys of the model's keyboard
Digits == {"0", "3", "4", "5"}
Keys == {"0", "5", ".", ",", "a"}

DigitValue(c) == CASE c = "0" -> 0 [] c = "3" -> 3 [] c = "4" -> 4 [] OTHER -> 5

IsDigitChar(c) == c \in Digits
IsSeparator(c) == c \in {".", ","}
NotSeparator(c) == ~IsSeparator(c)
IsDot(c) == c = "."

\* s.replace('.', '').replace(',', '')
WithoutSeparators(s) == SelectSeq(s, NotSeparator)

\* str.isdigit(): not empty and every character a digit
IsDigit(s) == Len(s) > 0 /\ \A i \in 1..Len(s) : IsDigitChar(s[i])

\* int(s) of a text of digits
RECURSIVE IntValue(_)
IntValue(s) ==
    IF Len(s) = 0 THEN 0
    ELSE 10 * IntValue(SubSeq(s, 1, Len(s) - 1)) + DigitValue(s[Len(s)])

RECURSIVE Pow10(_)
Pow10(n) == IF n = 0 THEN 1 ELSE 10 * Pow10(n - 1)

\* float(s) accepts digits with at most one '.', and at least one digit; a
\* ',' or a second '.' makes it raise ValueError
FloatParses(s) ==
    /\ \A i \in 1..Len(s) : IsDigitChar(s[i]) \/ IsDot(s[i])
    /\ Len(SelectSeq(s, IsDot)) <= 1
    /\ Len(SelectSeq(s, IsDigitChar)) > 0

\* number of digits after the '.' of a text float() accepts
FractionDigits(s) ==
    IF Len(SelectSeq(s, IsDot)) = 0 THEN 0
    ELSE Len(s) - (CHOOSE i \in 1..Len(s) : IsDot(s[i]))

\* float(s) of a text float() accepts
FloatValue(s) == Num(IntValue(SelectSeq(s, IsDigitChar)), Pow10(FractionDigits(s)))

\* int(s) accepts (of the model's keys) digits only; anything else raises
IntParses(s) == IsDigit(s)

Raised == [status |-> "raised"]

\* float(v) if v.replace('.', '').replace(',', '').isdigit() else default
\* (Raised when float() raises)
CustomLength(s, default) ==
    IF IsDigit(WithoutSeparators(s))
    THEN IF FloatParses(s) THEN FloatValue(s) ELSE Raised
    ELSE Whole(default)

\* int(v) if v.isdigit() else 300
CustomDpi(s) == IF IsDigit(s) THEN IntValue(s) ELSE 300

\* file_size_limit: None is the empty tuple here
NoLimit == <<>>

\* _get_custom_file_size_limit
GetCustomFileSizeLimit(s) ==
    IF Len(s) = 0 THEN NoLimit
    ELSE IF ~IntParses(s) THEN NoLimit
    ELSE IF IntValue(s) > 0 THEN <<1, IntValue(s)>> ELSE NoLimit

\* ------------------------------------------------ get_size_configuration

SizeTypes == {"e_okul", "acik_lise", "mebbis", "biometric", "vesikalik",
              "passport", "license", "custom"}

\* the widgets as __init__ / setup build them
InitialUi ==
    [size_type |-> "e_okul",
     custom_width_var |-> <<"3", "5">>,
     custom_height_var |-> <<"4", "5">>,
     custom_unit_var |-> "mm",
     custom_dpi_var |-> <<"3", "0", "0">>,
     custom_max_size_var |-> <<>>,
     sizing_with_naming |-> FALSE,
     watermark_enabled |-> FALSE,
     watermark_text |-> <<>>]

MmPreset(w, h, limit, quality) ==
    [status |-> "ok", width_mm |-> Whole(w), height_mm |-> Whole(h),
     file_size_limit |-> limit, quality |-> quality, dpi |-> 300]

\* the 'custom' entry of the configurations dict
CustomConfiguration(u) ==
    [status |-> "ok",
     width |-> CustomLength(u.custom_width_var, 35),
     height |-> CustomLength(u.custom_height_var, 45),
     width_mm |-> CustomLength(u.custom_width_var, 35),
     height_mm |-> CustomLength(u.custom_height_var, 45),
     unit |-> u.custom_unit_var,
     file_size_limit |-> GetCustomFileSizeLimit(u.custom_max_size_var),
     quality |-> 95,
     dpi |-> CustomDpi(u.custom_dpi_var)]

\* configurations.get(size_type) of a dict literal that is built whole
Configurations(u, size_type) ==
    CASE size_type = "e_okul" -> MmPreset(35, 45, <<20, 150>>, 85)
      [] size_type = "acik_lise" ->
            [status |-> "ok", width_px |-> Whole(394), height_px |-> Whole(512),
             file_size_limit |-> <<1, 150>>, quality |-> 90, dpi |-> 400,
             min_dpi |-> 400, force_biometric |-> TRUE,
             white_background |-> TRUE]
      [] size_type = "mebbis" ->
            [status |-> "ok", width_px |-> Whole(394), height_px |-> Whole(512),
             file_size_limit |-> <<1, 150>>, quality |-> 90, dpi |-> 300,
             force_biometric |-> TRUE, white_background |-> TRUE]
      [] size_type = "biometric" -> MmPreset(50, 60, NoLimit, 95)
      [] size_type = "vesikalik" -> MmPreset(45, 60, NoLimit, 95)
      [] size_type = "passport" -> MmPreset(35, 35, NoLimit, 95)
      [] size_type = "license" -> MmPreset(25, 35, NoLimit, 95)
      [] OTHER -> CustomConfiguration(u)

\* get_size_configuration: every entry of the dict literal is evaluated
\* before the lookup, so a float() that raises in the 'custom' entry raises
\* out of the call whichever size is selected
GetSizeConfiguration(u) ==
    IF \/ CustomLength(u.custom_width_var, 35) = Raised
       \/ CustomLength(u.custom_height_var, 45) = Raised
    THEN Raised
    ELSE Configurations(u, u.size_type)

\* ------------------------------------------------------ Crop Region Planner

FaceBox(x, y, w, h) == [x |-> x, y |-> y, w |-> w, h |-> h]
Region(x, y, w, h) == [x |-> x, y |-> y, w |-> w, h |-> h]

\* the padding factors of a planner: sides, top, bottom
Padding(side, top, bottom) == [side |-> side, top |-> top, bottom |-> bottom]
AcikLisePadding == Padding(Num(6, 10), Num(8, 10), Num(10, 10))
MebbisPadding == Padding(Num(5, 10), Num(7, 10), Num(9, 10))
\* process_single_photo calls crop_face_auto with padding_factor=0.15
AutoPadding == Padding(Num(15, 100), Num(8, 10), Num(4, 10))

\* f[2] * f[3] of a detected face
FaceArea(f) == f.w * f.h

\* max() keeping the last of the faces of equal area
RECURSIVE MaxFaceLastWins(_, _)
MaxFaceLastWins(faces, best) ==
    IF faces = <<>> THEN best
    ELSE MaxFaceLastWins(Tail(faces),
                         IF FaceArea(Head(faces)) >= FaceArea(best)
                         THEN Head(faces) ELSE best)

\* max(iterable, key=...): the items are visited in order and the one kept is
\* replaced only by an item whose key is greater
RECURSIVE MaxFace(_, _)
MaxFace(faces, best) ==
    IF faces = <<>> THEN best
    ELSE MaxFace(Tail(faces),
                 IF FaceArea(Head(faces)) > FaceArea(best)
                 THEN Head(faces) ELSE best)

\* LargestFace with the later of two faces of equal area
LargestFaceLastWins(faces) == MaxFaceLastWins(Tail(faces), Head(faces))

\* largest_face = max(faces, key=lambda f: f[2] * f[3])
LargestFace(faces) == MaxFace(Tail(faces), Head(faces))

\* PlanFaceCrop with the max(0, ...) of crop_x and crop_y left out
PlanFaceCropUnclamped(f, img_width, img_height, pad, e) ==
    LET padding_w == Trunc(f.w * pad.side.num, pad.side.den, TRUE, 0)
        padding_h_top == Trunc(f.h * pad.top.num, pad.top.den, TRUE, 0)
        padding_h_bottom == Trunc(f.h * pad.bottom.num, pad.bottom.den, TRUE, 0)
        crop_x == f.x - padding_w
        crop_y == f.y - padding_h_top
        crop_w == Min(f.w + 2 * padding_w, img_width - crop_x)
        crop_h == Min(f.h + padding_h_top + padding_h_bottom, img_height - crop_y)
    IN  [x |-> crop_x, y |-> crop_y, w |-> crop_w, h |-> crop_h]

\* "Kırpma koordinatlarını hesapla" of crop_face_auto and the two biometric
\* planners, which differ in the padding factors only; e is the float
\* outcome of each of the three int(w * factor)
PlanFaceCrop(f, img_width, img_height, pad, e) ==
    LET padding_w == TruncMul(f.w, pad.side.num, pad.side.den, e[1])
        padding_h_top == TruncMul(f.h, pad.top.num, pad.top.den, e[2])
        padding_h_bottom == TruncMul(f.h, pad.bottom.num, pad.bottom.den, e[3])
        crop_x == Max(0, f.x - padding_w)
        crop_y == Max(0, f.y - padding_h_top)
        crop_w == Min(f.w + 2 * padding_w, img_width - crop_x)
        crop_h == Min(f.h + padding_h_top + padding_h_bottom, img_height - crop_y)
    IN  Region(crop_x, crop_y,
               IF crop_x + crop_w > img_width THEN img_width - crop_x ELSE crop_w,
               IF crop_y + crop_h > img_height THEN img_height - crop_y ELSE crop_h)

\* CenterCrop with the "// 2" of the offsets left out
CenterCropUncentered(orig_width, orig_height, target_width, target_height, e) ==
    IF orig_width * target_height > target_width * orig_height
    THEN LET new_width == (orig_height * target_width) \div target_height
         IN  [x |-> orig_width - new_width, y |-> 0, w |-> new_width,
              h |-> orig_height]
    ELSE LET new_height == (orig_width * target_height) \div target_width
         IN  [x |-> 0, y |-> orig_height - new_height, w |-> orig_width,
              h |-> new_height]

\* "If crop coordinates not provided, use center crop" of crop_image
CenterCrop(orig_width, orig_height, target_width, target_height, e) ==
    IF orig_width * target_height > target_width * orig_height
    THEN LET new_width == TruncMul(orig_height, target_width, target_height, e)
         IN  Region((orig_width - new_width) \div 2, 0, new_width, orig_height)
    ELSE LET new_height == TruncQuot(orig_width, target_width, target_height, e)
         IN  Region(0, (orig_height - new_height) \div 2, orig_width, new_height)

\* "Ensure crop coordinates are within image bounds"
ClampRegion(r, orig_width, orig_height) ==
    LET x == Max(0, Min(r.x, orig_width))
        y == Max(0, Min(r.y, orig_height))
    IN  Region(x, y, Min(r.w, orig_width - x), Min(r.h, orig_height - y))

\* every region the face planner may compute
FaceCropPlans(f, img_width, img_height, pad) ==
    {PlanFaceCrop(f, img_width, img_height, pad, <<e1, e2, e3>>) :
        e1 \in MulChoices(f.w, pad.side.num, pad.side.den),
        e2 \in MulChoices(f.h, pad.top.num, pad.top.den),
        e3 \in MulChoices(f.h, pad.bottom.num, pad.bottom.den)}

\* every region the center crop may compute (target_height > 0)
CenterCropPlans(orig_width, orig_height, target_width, target_height) ==
    {CenterCrop(orig_width, orig_height, target_width, target_height, e) :
        e \in IF orig_width * target_height > target_width * orig_height
              THEN MulChoices(orig_height, target_width, target_height)
              ELSE IF target_width = 0 THEN {0}
              ELSE QuotChoices(orig_width, target_width, target_height)}

\* -------------------------------------------------------------- Compositor

\* abs(cropped_ratio - target_ratio) < 0.01; a difference of exactly 0.01
\* falls on either side with the float rounding
RatiosNearEqual(cw, ch, tw, th, e) ==
    IF Abs(cw * th - tw * ch) * 100 = ch * th THEN e = 0
    ELSE Abs(cw * th - tw * ch) * 100 < ch * th

\* ComposeWhite with the two resize branches exchanged (the crop is made to
\* fit inside the canvas)
ComposeWhiteFit(cw, ch, tw, th, e) ==
    IF RatiosNearEqual(cw, ch, tw, th, e[1])
    THEN [branch |-> "equal", new_width |-> tw, new_height |-> th,
          paste_x |-> 0, paste_y |-> 0]
    ELSE LET wider == cw * th > tw * ch
             new_width == IF wider THEN tw ELSE (th * cw) \div ch
             new_height == IF wider THEN (tw * ch) \div cw ELSE th
         IN  [branch |-> "aspect", new_width |-> new_width,
              new_height |-> new_height,
              paste_x |-> (tw - new_width) \div 2,
              paste_y |-> (th - new_height) \div 2]

\* ComposeWhite with the operands of the paste offsets exchanged
ComposeWhiteOffsetsSwapped(cw, ch, tw, th, e) ==
    IF RatiosNearEqual(cw, ch, tw, th, e[1])
    THEN [branch |-> "equal", new_width |-> tw, new_height |-> th,
          paste_x |-> 0, paste_y |-> 0]
    ELSE LET wider == cw * th > tw * ch
             new_width == IF wider THEN TruncMul(th, cw, ch, e[2]) ELSE tw
             new_height == IF wider THEN th ELSE TruncQuot(tw, cw, ch, e[2])
         IN  [branch |-> "aspect", new_width |-> new_width,
              new_height |-> new_height,
              paste_x |-> (new_width - tw) \div 2,
              paste_y |-> (new_height - th) \div 2]

\* the white_background branch of crop_image_with_white_background_optimized
\* for a cw x ch crop: the size the crop is resized to and where it is pasted
ComposeWhite(cw, ch, tw, th, e) ==
    IF RatiosNearEqual(cw, ch, tw, th, e[1])
    THEN [branch |-> "equal", new_width |-> tw, new_height |-> th,
          paste_x |-> 0, paste_y |-> 0]
    ELSE LET wider == cw * th > tw * ch
             new_width == IF wider THEN TruncMul(th, cw, ch, e[2]) ELSE tw
             new_height == IF wider THEN th ELSE TruncQuot(tw, cw, ch, e[2])
         IN  [branch |-> "aspect", new_width |-> new_width,
              new_height |-> new_height,
              paste_x |-> (tw - new_width) \div 2,
              paste_y |-> (th - new_height) \div 2]

\* the float outcomes that make a difference to ComposeWhite
ComposeChoices(cw, ch, tw, th) ==
    {<<n, r>> :
        n \in IF Abs(cw * th - tw * ch) * 100 = ch * th THEN FpOutcomes ELSE {0},
        r \in IF cw = 0 \/ ch = 0 THEN {0}
              ELSE IF cw * th > tw * ch THEN MulChoices(th, cw, ch)
              ELSE QuotChoices(tw, cw, ch)}

\* the pasted picture covers pixel (px, py) of the canvas
Covers(g, px, py) ==
    /\ g.paste_x <= px /\ px < g.paste_x + g.new_width
    /\ g.paste_y <= py /\ py < g.paste_y + g.new_height

\* --------------------------------------------- the dimension resolver alone

DimsInit ==
    /\ dimensions \in {CropDimensions(w, h, u, d, m) :
                         w \in Lengths, h \in Lengths, u \in Units,
                         d \in DpiValues, m \in {NoMinDpi} \cup DpiValues}
    /\ dimensions.unit = "px" =>
           dimensions.width.den = 1 /\ dimensions.height.den = 1
    /\ pixels = NoPixels
    /\ ui = InitialUi
    /\ size_config = NoConfig
    /\ image = NoImage
    /\ crop = NoCrop
    /\ paste = NoPaste
    /\ outfile = NoFile
    /\ sidefile = NoFile
    /\ opt = NoOpt
    /\ success = FALSE
    /\ stages = <<>>
    /\ events = 0
    /\ pc = "resolve"
    /\ batch = NoBatch
    /\ app = NoApp

\* dimensions.to_pixels()
ResolvePixels ==
    /\ pc = "resolve"
    /\ pixels' \in PixelSizes(dimensions)
    /\ pc' = "resolved"
    /\ UNCHANGED <<ui, size_config, dimensions, image, crop, paste, outfile,
                   sidefile, opt, success, stages, events>>
    /\ UNCHANGED <<batch, app>>

DimsNext == ResolvePixels

SpecDims == DimsInit /\ [][DimsNext]_vars

\* the dpi the spec calls effective: the minimum-DPI floor applied
EffectiveDpi(d) == IF d.min_dpi # NoMinDpi THEN Max(d.dpi, d.min_dpi) ELSE d.dpi

\* C1: for a spec in mm, to_pixels returns round(value / 25.4 * dpi) for the
\* width and for the height (round to nearest, not truncation).
C1_MmPixelsAreRounded ==
    (pc = "resolved" /\ dimensions.unit = "mm") =>
        /\ RoundedTo(pixels[1], dimensions.width.num * dimensions.dpi * 10,
                     254 * dimensions.width.den)
        /\ RoundedTo(pixels[2], dimensions.height.num * dimensions.dpi * 10,
                     254 * dimensions.height.den)

\* C2: when min_dpi is set and dpi < min_dpi, the pixel size of an mm or cm
\* spec is computed with min_dpi as the dpi; a px spec keeps its pixel size.
C2_MinDpiRaisesPixelSize ==
    (pc = "resolved" /\ dimensions.min_dpi # NoMinDpi
                    /\ dimensions.dpi < dimensions.min_dpi) =>
        \E ew \in FpOutcomes, eh \in FpOutcomes :
            pixels = ToPixels([dimensions EXCEPT !.dpi = EffectiveDpi(dimensions)],
                              ew, eh)

\* ------------------------------------------- the CropDimensions of a photo

\* 'key' in size_config / size_config.get(key, default)
Has(cfg, k) == k \in DOMAIN cfg
Get(cfg, k, default) == IF k \in DOMAIN cfg THEN cfg[k] ELSE default

\* int(x) of a float
IntOf(x) == Whole(x.num \div x.den)

\* process_single_photo, "Boyutları belirle (pixel veya mm)"
BuildDimensions(cfg) ==
    LET dpi == Get(cfg, "dpi", 300)
        min_dpi == Get(cfg, "min_dpi", NoMinDpi)
    IN  IF Has(cfg, "width_px") /\ Has(cfg, "height_px")
        THEN CropDimensions(cfg.width_px, cfg.height_px, "px", dpi, min_dpi)
        ELSE IF Get(cfg, "unit", "") = "px" \/ Has(cfg, "width_px")
        THEN CropDimensions(
                 IntOf(Get(cfg, "width_px", Get(cfg, "width", Whole(300)))),
                 IntOf(Get(cfg, "height_px", Get(cfg, "height", Whole(400)))),
                 "px", dpi, min_dpi)
        ELSE IF Get(cfg, "unit", "") = "cm"
        THEN CropDimensions(
                 Get(cfg, "width_cm", Get(cfg, "width", Num(35, 10))),
                 Get(cfg, "height_cm", Get(cfg, "height", Num(45, 10))),
                 "cm", dpi, min_dpi)
        ELSE CropDimensions(
                 Get(cfg, "width_mm", Get(cfg, "width", Whole(35))),
                 Get(cfg, "height_mm", Get(cfg, "height", Whole(45))),
                 "mm", dpi, min_dpi)

\* ------------------------------------------ the sizing options of the UI

EntryFields == {"custom_width_var", "custom_height_var", "custom_dpi_var",
                "custom_max_size_var"}

ConfigInit ==
    /\ ui = InitialUi
    /\ size_config = NoConfig
    /\ dimensions = NoDimensions
    /\ pixels = NoPixels
    /\ image = NoImage
    /\ crop = NoCrop
    /\ paste = NoPaste
    /\ outfile = NoFile
    /\ sidefile = NoFile
    /\ opt = NoOpt
    /\ success = FALSE
    /\ stages = <<>>
    /\ events = 0
    /\ pc = "ui"
    /\ batch = NoBatch
    /\ app = NoApp

\* the user picks a size in the (read-only) size combobox
SelectSize ==
    /\ pc = "ui" /\ events < MaxUiEvents
    /\ \E s \in SizeTypes \ {ui.size_type} : ui' = [ui EXCEPT !.size_type = s]
    /\ events' = events + 1
    /\ UNCHANGED <<size_config, dimensions, pixels, image, crop, paste, outfile,
                   sidefile, opt, success, stages, pc>>
    /\ UNCHANGED <<batch, app>>

\* the user picks a unit in the (read-only) unit combobox
SelectUnit ==
    /\ pc = "ui" /\ events < MaxUiEvents
    /\ \E u \in Units \ {ui.custom_unit_var} :
           ui' = [ui EXCEPT !.custom_unit_var = u]
    /\ events' = events + 1
    /\ UNCHANGED <<size_config, dimensions, pixels, image, crop, paste, outfile,
                   sidefile, opt, success, stages, pc>>
    /\ UNCHANGED <<batch, app>>

\* the user types a character at the end of an Entry
TypeKey ==
    /\ pc = "ui" /\ events < MaxUiEvents
    /\ \E f \in EntryFields, c \in Keys : ui' = [ui EXCEPT ![f] = Append(@, c)]
    /\ events' = events + 1
    /\ UNCHANGED <<size_config, dimensions, pixels, image, crop, paste, outfile,
                   sidefile, opt, success, stages, pc>>
    /\ UNCHANGED <<batch, app>>

\* the user deletes the last character of an Entry
Backspace ==
    /\ pc = "ui" /\ events < MaxUiEvents
    /\ \E f \in EntryFields :
           /\ Len(ui[f]) > 0
           /\ ui' = [ui EXCEPT ![f] = SubSeq(@, 1, Len(@) - 1)]
    /\ events' = events + 1
    /\ UNCHANGED <<size_config, dimensions, pixels, image, crop, paste, outfile,
                   sidefile, opt, success, stages, pc>>
    /\ UNCHANGED <<batch, app>>

\* the user selects the whole text of an Entry and types a character over it
TypeOver ==
    /\ pc = "ui" /\ events < MaxUiEvents
    /\ \E f \in EntryFields, c \in Keys :
           /\ ui[f] # <<c>>
           /\ ui' = [ui EXCEPT ![f] = <<c>>]
    /\ events' = events + 1
    /\ UNCHANGED <<size_config, dimensions, pixels, image, crop, paste, outfile,
                   sidefile, opt, success, stages, pc>>
    /\ UNCHANGED <<batch, app>>

\* crop_and_resize_photos, "Boyut ayarlarını al": the call sits in the
\* operation's try block, so a raise ends the operation in its except
\* clause ("Genel hata") before any photo is read
ResolveSizeConfiguration ==
    /\ pc = "ui"
    /\ size_config' = GetSizeConfiguration(ui)
    /\ pc' = IF size_config' = Raised THEN "aborted" ELSE "configured"
    /\ UNCHANGED <<ui, dimensions, pixels, image, crop, paste, outfile,
                   sidefile, opt, success, stages, events>>
    /\ UNCHANGED <<batch, app>>

\* process_single_photo, "Boyutları belirle" and the to_pixels() of the crop
\* call, for the configuration the batch fetched
ResolveTargetPixels ==
    /\ pc = "configured"
    /\ dimensions' = BuildDimensions(size_config)
    /\ pixels' \in PixelSizes(dimensions')
    /\ pc' = "sized"
    /\ UNCHANGED <<ui, size_config, image, crop, paste, outfile, sidefile, opt,
                   success, stages, events>>
    /\ UNCHANGED <<batch, app>>

ConfigNext ==
    \/ SelectSize
    \/ SelectUnit
    \/ TypeKey
    \/ TypeOver
    \/ Backspace
    \/ ResolveSizeConfiguration
    \/ ResolveTargetPixels

SpecConfig == ConfigInit /\ [][ConfigNext]_vars

\* C3: resolving the target spec never errors: whatever the custom width,
\* height and dpi fields hold and whichever size is selected,
\* get_size_configuration returns a configuration, with the defaults
\* 35 / 45 / 300 for a value that cannot be parsed, and the batch goes on.
C3_ResolveNeverErrors ==
    pc \in {"configured", "aborted"} =>
        /\ pc = "configured"
        /\ size_config.status = "ok"
        /\ ui.size_type = "custom" =>
              /\ ~FloatParses(ui.custom_width_var) => size_config.width = Whole(35)
              /\ ~FloatParses(ui.custom_height_var) => size_config.height = Whole(45)
              /\ ~IntParses(ui.custom_dpi_var) => size_config.dpi = 300

\* ------------------------------------------------- files and the encoder

NoDpiTag == 0

\* a file an encoder wrote: pixel size, DPI tag, format, quality, bytes, and
\* gen, the number of times the path has been (re)written
File(w, h, dpi, format, quality, size, gen) ==
    [exists |-> TRUE, width |-> w, height |-> h, dpi |-> dpi,
     format |-> format, quality |-> quality, size |-> size, gen |-> gen]

\* the byte sizes an encode may produce: both sides of each end of the
\* configuration's budget (one size when there is no budget)
EncodedSizes(cfg) ==
    LET limit == Get(cfg, "file_size_limit", NoLimit)
    IN  IF limit = NoLimit THEN {50 * 1024}
        ELSE {limit[1] * 1024 - 1, limit[1] * 1024,
              limit[2] * 1024, limit[2] * 1024 + 1}

\* the suffixes get_image_files accepts (.bmp stands for .bmp/.tiff/.webp)
Exts == {".jpg", ".jpeg", ".png", ".bmp"}

\* 'original' in str(output_path): the batch writes to the folder
\* <size>_original_names when the photos keep their names
OriginalInPath(u) == ~u.sizing_with_naming

Failed == [ok |-> FALSE]

\* Image.resize raises "height and width must be > 0" for an empty target;
\* resizing an empty crop either raises or yields the target size (works)
ResizeOk(cw, ch, tw, th, works) ==
    tw >= 1 /\ th >= 1 /\ ((cw >= 1 /\ ch >= 1) \/ works)

\* crop_image: region is the crop the caller passed, or NoCrop for the
\* x=None... call; yields where the file went ("out": the .jpg path, "side":
\* the path with the source's suffix) and the file written
CropImage(img, px, region, centered, original_in_path, e, works, size, gen) ==
    LET output_format == IF original_in_path THEN img.ext ELSE ".jpg"
        r == IF centered THEN CenterCrop(img.width, img.height, px[1], px[2], e)
             ELSE region
        c == ClampRegion(r, img.width, img.height)
    IN  IF ~img.readable THEN Failed
        ELSE IF centered /\ px[2] = 0 THEN Failed
        ELSE IF ~ResizeOk(c.w, c.h, px[1], px[2], works) THEN Failed
        ELSE IF output_format = ".png"
        THEN [ok |-> TRUE, at |-> "side", region |-> c,
              file |-> File(px[1], px[2], 300, "PNG", 0, size, gen)]
        ELSE [ok |-> TRUE,
              at |-> IF output_format = ".jpeg" THEN "side" ELSE "out",
              region |-> c,
              file |-> File(px[1], px[2], 300, "JPEG", 95, size, gen)]

\* "Format ve DPI kontrolü" of crop_image_with_white_background_optimized
FinalDpi(d) ==
    IF d.min_dpi # NoMinDpi /\ d.dpi < d.min_dpi THEN d.min_dpi ELSE d.dpi

\* FinalImageSize with final_img = resized in the pasting branch too
FinalImageSizeResized(g, px) == <<g.new_width, g.new_height>>

\* the size of final_img: the white canvas when the crop was pasted on it,
\* else the resized crop itself
FinalImageSize(g, px) ==
    IF g.branch = "aspect" THEN <<px[1], px[2]>>
    ELSE <<g.new_width, g.new_height>>

\* crop_image_with_white_background_optimized with the crop given: always
\* writes a JPEG at the .jpg path
CropImageWhite(img, d, px, region, white_background, e, works, size, gen) ==
    LET c == ClampRegion(region, img.width, img.height)
        g == IF white_background
             THEN ComposeWhite(c.w, c.h, px[1], px[2], e)
             ELSE [branch |-> "plain", new_width |-> px[1],
                   new_height |-> px[2], paste_x |-> 0, paste_y |-> 0]
    IN  IF ~img.readable THEN Failed
        ELSE IF px[2] = 0 \/ c.h = 0 THEN Failed
        ELSE IF /\ white_background /\ c.w = 0
                /\ ~RatiosNearEqual(c.w, c.h, px[1], px[2], e[1]) THEN Failed
        ELSE IF ~ResizeOk(c.w, c.h, g.new_width, g.new_height, works) THEN Failed
        ELSE IF px[1] < 1 THEN Failed
        ELSE [ok |-> TRUE, at |-> "out", region |-> c, paste |-> g,
              file |-> File(FinalImageSize(g, px)[1], FinalImageSize(g, px)[2],
                            FinalDpi(d), "JPEG", 90, size, gen)]

\* whether resizing the crop c may go either way
WorksChoices(c) == IF c.w >= 1 /\ c.h >= 1 THEN {TRUE} ELSE BOOLEAN

\* every outcome of the crop call process_single_photo makes for a face
\* region: the biometric planners end in
\* crop_image_with_white_background_optimized, crop_face_auto in crop_image
FaceCropResults(cfg, u, img, d, px, region) ==
    LET c == ClampRegion(region, img.width, img.height)
    IN  IF Get(cfg, "force_biometric", FALSE)
        THEN {CropImageWhite(img, d, px, region,
                             Get(cfg, "white_background", FALSE), e, works,
                             size, 1) :
                 e \in ComposeChoices(c.w, c.h, px[1], px[2]),
                 works \in WorksChoices(c), size \in EncodedSizes(cfg)}
        ELSE {CropImage(img, px, region, FALSE, OriginalInPath(u), 0, works,
                        size, 1) :
                 works \in WorksChoices(c), size \in EncodedSizes(cfg)}

\* every outcome of crop_image(input_path, output_path, dimensions)
CenterCropResults(cfg, u, img, px) ==
    IF px[2] = 0
    THEN {CropImage(img, px, NoCrop, TRUE, OriginalInPath(u), 0, TRUE, 0, 1)}
    ELSE UNION {{CropImage(img, px, r, FALSE, OriginalInPath(u), 0, works,
                           size, 1) :
                    works \in WorksChoices(ClampRegion(r, img.width, img.height)),
                    size \in EncodedSizes(cfg)} :
                r \in CenterCropPlans(img.width, img.height, px[1], px[2])}

\* --------------------------------------------------- process_single_photo

\* the padding profile process_single_photo selects: the size combobox is
\* read again for every photo
SelectedPadding(cfg, u) ==
    IF Get(cfg, "force_biometric", FALSE)
    THEN IF u.size_type = "mebbis" THEN MebbisPadding ELSE AcikLisePadding
    ELSE AutoPadding

\* the file the path holds after one more write
Written(old, file) ==
    [file EXCEPT !.gen = IF old.exists THEN old.gen + 1 ELSE 1]

\* CheckInput without "if photo_path.stat().st_size == 0"
CheckInputNoSizeCheck ==
    /\ pc = "check"
    /\ IF ~image.exists
       THEN /\ success' = FALSE
            /\ pc' = "returned"
            /\ UNCHANGED <<dimensions, pixels>>
       ELSE /\ dimensions' = BuildDimensions(size_config)
            /\ pixels' \in PixelSizes(dimensions')
            /\ pc' = "crop"
            /\ UNCHANGED success
    /\ UNCHANGED <<ui, size_config, image, crop, paste, outfile, sidefile, opt,
                   stages, events>>
    /\ UNCHANGED <<batch, app>>

\* "Dosya varlığını kontrol et" ... "Boyutları belirle": a missing or empty
\* source returns False at once; else the CropDimensions are built
CheckInput ==
    /\ pc = "check"
    /\ IF ~image.exists \/ image.empty
       THEN /\ success' = FALSE
            /\ pc' = "returned"
            /\ UNCHANGED <<dimensions, pixels>>
       ELSE /\ dimensions' = BuildDimensions(size_config)
            /\ pixels' \in PixelSizes(dimensions')
            /\ pc' = "crop"
            /\ UNCHANGED success
    /\ UNCHANGED <<ui, size_config, image, crop, paste, outfile, sidefile, opt,
                   stages, events>>
    /\ UNCHANGED <<batch, app>>

\* "Açık Lise/MEBBIS için özel işleme" / "normal yüz algılama": detect the
\* faces, plan the crop around the largest one, compose and save
FaceCrop ==
    /\ pc = "crop"
    /\ IF image.faces = <<>>
       THEN /\ success' = FALSE
            /\ pc' = "fallback"
            /\ stages' = Append(stages, "locate")
            /\ UNCHANGED <<crop, paste, outfile, sidefile>>
       ELSE \E region \in FaceCropPlans(LargestFace(image.faces), image.width,
                                        image.height,
                                        SelectedPadding(size_config, ui)) :
            \E res \in FaceCropResults(size_config, ui, image, dimensions,
                                       pixels, region) :
                  /\ crop' = region
                  /\ success' = res.ok
                  /\ paste' = IF res.ok /\ Has(res, "paste") THEN res.paste
                              ELSE NoPaste
                  /\ outfile' = IF res.ok /\ res.at = "out"
                                THEN Written(outfile, res.file) ELSE outfile
                  /\ sidefile' = IF res.ok /\ res.at = "side"
                                 THEN Written(sidefile, res.file) ELSE sidefile
                  /\ stages' = IF res.ok
                               THEN stages \o <<"locate", "plan", "compose">>
                               ELSE stages \o <<"locate", "plan">>
                  /\ pc' = IF res.ok THEN "watermark" ELSE "fallback"
    /\ UNCHANGED <<ui, size_config, dimensions, pixels, image, opt, events>>
    /\ UNCHANGED <<batch, app>>

\* "Yüz algılanamadığında merkezi kırpma": crop_image without coordinates
FallbackCenterCrop ==
    /\ pc = "fallback"
    /\ \E res \in CenterCropResults(size_config, ui, image, pixels) :
              /\ success' = res.ok
              /\ crop' = IF res.ok THEN res.region ELSE crop
              /\ outfile' = IF res.ok /\ res.at = "out"
                            THEN Written(outfile, res.file) ELSE outfile
              /\ sidefile' = IF res.ok /\ res.at = "side"
                             THEN Written(sidefile, res.file) ELSE sidefile
              /\ stages' = IF res.ok THEN stages \o <<"center", "compose">>
                           ELSE stages
    /\ paste' = NoPaste
    /\ pc' = "watermark"
    /\ UNCHANGED <<ui, size_config, dimensions, pixels, image, opt, events>>
    /\ UNCHANGED <<batch, app>>

\* apply_watermark_to_photo stamps: the .jpg is re-saved at quality 95, and
\* the save passes no dpi, so the JPEG it writes carries no DPI tag
Stamped(f, size) ==
    Written(f, File(f.width, f.height, NoDpiTag, "JPEG", 95, size, 0))

\* "Watermark ekle (eğer aktifse)": apply_watermark_to_photo(output_path)
\* returns early when the file is missing or the text is blank
Watermark ==
    /\ pc = "watermark"
    /\ IF success /\ ui.watermark_enabled /\ outfile.exists
          /\ ui.watermark_text # <<>>
       THEN /\ \E size \in EncodedSizes(size_config) :
                   outfile' = Stamped(outfile, size)
            /\ stages' = Append(stages, "watermark")
       ELSE UNCHANGED <<outfile, stages>>
    /\ pc' = "optimize"
    /\ UNCHANGED <<ui, size_config, dimensions, pixels, image, crop, paste,
                   sidefile, opt, success, events>>
    /\ UNCHANGED <<batch, app>>

\* ------------------------------------------------------ optimize_file_size

MinBytes(cfg) == cfg.file_size_limit[1] * 1024
MaxBytes(cfg) == cfg.file_size_limit[2] * 1024

\* InBudget with the ends of the range left out
InBudgetStrict(cfg, size) == MinBytes(cfg) < size /\ size < MaxBytes(cfg)

\* min_bytes <= current_size <= max_bytes
InBudget(cfg, size) == MinBytes(cfg) <= size /\ size <= MaxBytes(cfg)

\* img.info.get('dpi', (300, 300)) of the file being re-encoded
DpiInfo(f) == IF f.dpi = NoDpiTag THEN 300 ELSE f.dpi

\* img.save(file_path, format='JPEG', quality=quality, optimize=True,
\*          dpi=dpi_info)
Reencoded(f, quality, size) ==
    Written(f, File(f.width, f.height, DpiInfo(f), "JPEG", quality, size, 0))

\* one img.save of the optimizer: the quality asked for and the size got
Encode(quality, size) == [quality |-> quality, size |-> size]

\* OptimizeEnter without the "success and" of the call's condition
OptimizeEnterUnconditional ==
    /\ pc = "optimize"
    /\ IF Get(size_config, "file_size_limit", NoLimit) = NoLimit
       THEN /\ pc' = "returned"
            /\ UNCHANGED <<opt, success, stages>>
       ELSE IF ~outfile.exists
       THEN /\ success' = FALSE
            /\ pc' = "returned"
            /\ stages' = Append(stages, "optimize")
            /\ UNCHANGED opt
       ELSE /\ success' = TRUE
            /\ pc' = "returned"
            /\ stages' = Append(stages, "optimize")
            /\ UNCHANGED opt
    /\ UNCHANGED <<ui, size_config, dimensions, pixels, image, crop, paste,
                   outfile, sidefile, events>>
    /\ UNCHANGED <<batch, app>>

\* "E-Okul için dosya boyutu kontrolü" and the head of optimize_file_size:
\* a missing file makes getsize raise (the call returns False), a size
\* within the budget returns True at once, else the search starts
OptimizeEnter ==
    /\ pc = "optimize"
    /\ IF ~(success /\ Get(size_config, "file_size_limit", NoLimit) # NoLimit)
       THEN /\ pc' = "returned"
            /\ UNCHANGED <<opt, success, stages>>
       ELSE IF ~outfile.exists
       THEN /\ success' = FALSE
            /\ pc' = "returned"
            /\ stages' = Append(stages, "optimize")
            /\ UNCHANGED opt
       ELSE IF InBudget(size_config, outfile.size)
       THEN /\ success' = TRUE
            /\ pc' = "returned"
            /\ stages' = Append(stages, "optimize")
            /\ UNCHANGED opt
       ELSE /\ opt' = [quality |-> size_config.quality,
                       original_quality |-> size_config.quality,
                       current_size |-> outfile.size, encodes |-> 0,
                       given |-> outfile.size, history |-> <<>>]
            /\ pc' = "opt_loop"
            /\ stages' = Append(stages, "optimize")
            /\ UNCHANGED success
    /\ UNCHANGED <<ui, size_config, dimensions, pixels, image, crop, paste,
                   outfile, sidefile, events>>
    /\ UNCHANGED <<batch, app>>

\* OptimizeLower with the loop test "quality >= 20"
OptimizeLowerOnceMore ==
    /\ pc = "opt_loop"
    /\ opt.current_size > MaxBytes(size_config) /\ opt.quality >= 20
    /\ \E size \in EncodedSizes(size_config) :
          /\ outfile' = Reencoded(outfile, opt.quality - 5, size)
          /\ opt' = [opt EXCEPT !.quality = @ - 5, !.current_size = size,
                                !.encodes = @ + 1]
    /\ UNCHANGED <<ui, size_config, dimensions, pixels, image, crop, paste,
                   sidefile, success, stages, events, pc>>
    /\ UNCHANGED <<batch, app>>

\* one pass of "while current_size > max_bytes and quality > 20"
OptimizeLower ==
    /\ pc = "opt_loop"
    /\ opt.current_size > MaxBytes(size_config) /\ opt.quality > 20
    /\ \E size \in EncodedSizes(size_config) :
          /\ outfile' = Reencoded(outfile, opt.quality - 5, size)
          /\ opt' = [opt EXCEPT !.quality = @ - 5, !.current_size = size,
                                !.encodes = @ + 1,
                                !.history = Append(@, Encode(opt.quality - 5,
                                                             size))]
    /\ UNCHANGED <<ui, size_config, dimensions, pixels, image, crop, paste,
                   sidefile, success, stages, events, pc>>
    /\ UNCHANGED <<batch, app>>

\* the loop is left; "Dosya çok küçükse kaliteyi artır (sadece JPEG için)"
OptimizeRaise ==
    /\ pc = "opt_loop"
    /\ ~(opt.current_size > MaxBytes(size_config) /\ opt.quality > 20)
    /\ IF opt.current_size < MinBytes(size_config)
          /\ opt.quality < opt.original_quality
       THEN \E size \in EncodedSizes(size_config) :
              /\ outfile' = Reencoded(outfile, Min(95, opt.quality + 20), size)
              /\ opt' = [opt EXCEPT !.quality = Min(95, @ + 20),
                                    !.encodes = @ + 1,
                                    !.history = Append(@,
                                        Encode(Min(95, opt.quality + 20), size))]
       ELSE UNCHANGED <<outfile, opt>>
    /\ pc' = "opt_final"
    /\ UNCHANGED <<ui, size_config, dimensions, pixels, image, crop, paste,
                   sidefile, success, stages, events>>
    /\ UNCHANGED <<batch, app>>

\* OptimizeFinish returning False when the budget was missed
OptimizeFinishStrict ==
    /\ pc = "opt_final"
    /\ success' = InBudget(size_config, outfile.size)
    /\ pc' = "returned"
    /\ UNCHANGED <<ui, size_config, dimensions, pixels, image, crop, paste,
                   outfile, sidefile, opt, stages, events>>
    /\ UNCHANGED <<batch, app>>

\* "Hedef aralıkta mı kontrol et": True in the budget, and True out of it
\* ("Yine de devam et")
OptimizeFinish ==
    /\ pc = "opt_final"
    /\ success' = TRUE
    /\ pc' = "returned"
    /\ UNCHANGED <<ui, size_config, dimensions, pixels, image, crop, paste,
                   outfile, sidefile, opt, stages, events>>
    /\ UNCHANGED <<batch, app>>

\* -------------------------------------------------------- source photos

\* a readable photo of w x h pixels in which the detector finds faces
Photo(ext, w, h, faces) ==
    [exists |-> TRUE, empty |-> FALSE, readable |-> TRUE, ext |-> ext,
     width |-> w, height |-> h, faces |-> faces]

\* the face boxes that lie inside a w x h image
FacesInside(w, h) ==
    {FaceBox(x, y, fw, fh) : x \in 0..(w - 1), y \in 0..(h - 1),
                             fw \in 1..w, fh \in 1..h}

\* the boxes in the top left corner of a w x h photo
CornerFaces(w, h) == {FaceBox(0, 0, fw, fh) : fw \in 1..w, fh \in 1..h}

\* no face, one face anywhere in the photo, or two faces in the corner, of
\* equal or different area, in either order
FaceLists(w, h) ==
    {<<>>} \cup {<<f>> : f \in {g \in FacesInside(w, h) :
                                  g.x + g.w <= w /\ g.y + g.h <= h}}
           \cup {<<f, g>> : f \in CornerFaces(w, h), g \in CornerFaces(w, h)}

\* ------------------------------- the planner and the compositor, in small

\* a configuration with a target of tw x th pixels: the biometric presets
\* with their pixel size replaced, or the custom size in px
StudyConfig(size_type, tw, th) ==
    IF size_type \in {"acik_lise", "mebbis"}
    THEN [Configurations(InitialUi, size_type) EXCEPT
             !.width_px = Whole(tw), !.height_px = Whole(th),
             !.file_size_limit = NoLimit]
    ELSE [CustomConfiguration(InitialUi) EXCEPT
             !.width = Whole(tw), !.height = Whole(th), !.unit = "px"]

PlanInit ==
    /\ \E st \in {"acik_lise", "mebbis", "custom"},
          tw \in 1..MaxTarget, th \in 1..MaxTarget :
          /\ ui = [InitialUi EXCEPT !.size_type = st,
                                    !.sizing_with_naming = TRUE]
          /\ size_config = StudyConfig(st, tw, th)
    /\ \E w \in 1..MaxImage, h \in 1..MaxImage :
          image \in {Photo(".jpg", w, h, fl) : fl \in FaceLists(w, h)}
    /\ dimensions = NoDimensions
    /\ pixels = NoPixels
    /\ crop = NoCrop
    /\ paste = NoPaste
    /\ outfile = NoFile
    /\ sidefile = NoFile
    /\ opt = NoOpt
    /\ success = FALSE
    /\ stages = <<>>
    /\ events = 0
    /\ pc = "check"
    /\ batch = NoBatch
    /\ app = NoApp

PlanNext ==
    \/ CheckInput
    \/ FaceCrop
    \/ FallbackCenterCrop

SpecPlan == PlanInit /\ [][PlanNext]_vars

\* ------------------------------------------------- one photo of a batch

\* the sizing widgets a batch can start from: every size, the custom size
\* in each unit at 400 dpi with a byte budget of 50 KB
BatchUis ==
    {v \in
     {[InitialUi EXCEPT !.size_type = st, !.custom_unit_var = u,
                       !.custom_dpi_var = d, !.custom_max_size_var = m,
                       !.sizing_with_naming = n, !.watermark_enabled = we,
                       !.watermark_text = wt] :
        st \in SizeTypes, u \in Units,
        d \in {InitialUi.custom_dpi_var, <<"4", "0", "0">>},
        m \in {InitialUi.custom_max_size_var, <<"5", "0">>}, n \in BOOLEAN, we \in BOOLEAN,
        wt \in {<<>>, <<"a">>}} :
        /\ v.size_type # "custom" =>
               /\ v.custom_unit_var = InitialUi.custom_unit_var
               /\ v.custom_dpi_var = InitialUi.custom_dpi_var
               /\ v.custom_max_size_var = InitialUi.custom_max_size_var
        /\ v.size_type = "custom" =>
               /\ v.custom_dpi_var # InitialUi.custom_dpi_var
               /\ v.custom_max_size_var # InitialUi.custom_max_size_var
        /\ ~v.watermark_enabled => v.watermark_text # <<>>}

\* the faces the detector may report in a w x h photo: none, the face of the
\* spec's scenario A scaled to the photo, a square box (what a Haar cascade
\* reports) in the middle, one in the bottom right corner
SourceFaces(w, h) ==
    {<<>>,
     <<FaceBox(w \div 3, (3 * h) \div 16, w \div 4, h \div 4)>>,
     <<FaceBox(w \div 3, h \div 3, w \div 5, w \div 5)>>,
     <<FaceBox(w - w \div 4, h - h \div 4, w \div 4, h \div 4)>>}

SourcePhotos ==
    UNION {{Photo(x, 600 * a, 800 * a, fl) :
               x \in Exts, fl \in SourceFaces(600 * a, 800 * a)} :
           a \in 1..MaxSourceScale}

\* a path that does not exist, a zero-byte file, a file PIL cannot read
BadSources ==
    {[Photo(".jpg", 600, 800, <<>>) EXCEPT !.exists = FALSE],
     [Photo(".jpg", 600, 800, <<>>) EXCEPT !.empty = TRUE],
     [Photo(".jpg", 600, 800, <<>>) EXCEPT !.readable = FALSE]}

Init ==
    /\ ui \in BatchUis
    /\ size_config = GetSizeConfiguration(ui)
    /\ image \in SourcePhotos \cup BadSources
    /\ dimensions = NoDimensions
    /\ pixels = NoPixels
    /\ crop = NoCrop
    /\ paste = NoPaste
    /\ outfile = NoFile
    /\ sidefile = NoFile
    /\ opt = NoOpt
    /\ success = FALSE
    /\ stages = <<>>
    /\ events = 0
    /\ pc = "check"
    /\ batch = NoBatch
    /\ app = NoApp

Next ==
    \/ CheckInput
    \/ FaceCrop
    \/ FallbackCenterCrop
    \/ Watermark
    \/ OptimizeEnter
    \/ OptimizeLower
    \/ OptimizeRaise
    \/ OptimizeFinish

Spec == Init /\ [][Next]_vars

\* ------------------------------------------------- crop_and_resize_photos

\* a photo get_image_files found: its sub-directory, stem and suffix, and
\* what opening it will give
BatchPhoto(dir, stem, ext, exists, empty, readable) ==
    [dir |-> dir, stem |-> stem, ext |-> ext, exists |-> exists,
     empty |-> empty, readable |-> readable, width |-> 600, height |-> 800,
     faces |-> IF readable
               THEN <<FaceBox(200, 150, 150, 200)>> ELSE <<>>]

\* the photos an input directory may hold, sorted by path as photos.sort()
\* leaves them: w/a.bmp was deleted after the listing, x/b.jpg is a
\* zero-byte file, y/a.jpeg is no image
PhotoPool ==
    <<BatchPhoto("w", "a", ".bmp", FALSE, FALSE, TRUE),
      BatchPhoto("x", "a", ".jpg", TRUE, FALSE, TRUE),
      BatchPhoto("x", "a", ".png", TRUE, FALSE, TRUE),
      BatchPhoto("x", "b", ".jpg", TRUE, TRUE, TRUE),
      BatchPhoto("y", "a", ".jpeg", TRUE, FALSE, FALSE),
      BatchPhoto("y", "a", ".png", TRUE, FALSE, TRUE),
      BatchPhoto("y", "b", ".jpg", TRUE, FALSE, TRUE)>>

RECURSIVE Ascending(_)
Ascending(S) ==
    IF S = {} THEN <<>>
    ELSE LET m == CHOOSE x \in S : \A y \in S : x <= y
         IN  <<m>> \o Ascending(S \ {m})

\* the sorted lists of at most MaxPhotos photos of the pool
PhotoLists ==
    {[k \in 1..Cardinality(S) |-> PhotoPool[Ascending(S)[k]]] :
        S \in {T \in SUBSET (1..Len(PhotoPool)) : Cardinality(T) <= MaxPhotos}}

\* the cleaned names the selected columns give for the rows of the sheet
RowNames == {"n", "m"}
RowLists == UNION {[1..k -> RowNames] : k \in 1..MaxRows}

\* a file name in the output directory: <stem>.<ext> or <stem>_<counter>.<ext>
Name(stem, counter, ext) == [stem |-> stem, counter |-> counter, ext |-> ext]
NoName == Name("", 0, "")
NoSummary == [reported |-> FALSE]
NoFiles == [n \in {} |-> 0]

\* "Aynı isimde dosya varsa numara ekle": the first of <name>.jpg,
\* <name>_1.jpg, ... that does not exist
OutputName(dir, clean_name) ==
    LET Free(c) == Name(clean_name, c, ".jpg") \notin DOMAIN dir
        c == CHOOSE k \in 0..Cardinality(DOMAIN dir) :
                 Free(k) /\ \A j \in 0..(k - 1) : ~Free(j)
    IN  Name(clean_name, c, ".jpg")

\* the path crop_image writes to when it keeps the source's suffix
SideName(name, photo) == [name EXCEPT !.ext = photo.ext]

\* the sizes the batches are run with; neither has a byte budget, so that
\* optimize_file_size is not called (it is covered photo by photo in Spec)
BatchSizeTypes == {"passport", "biometric"}

\* the window as start_crop_and_resize_photos leaves it: the four buttons
\* disabled, the cancel container packed, the thread started
StartedApp ==
    [NoApp EXCEPT !.crop_resize_button = "disabled",
                  !.action_buttons = "disabled", !.cancel_shown = TRUE,
                  !.current_operation = "Thread"]

\* the state at "İlerleme başlat": the size configuration is fetched, the
\* photos are listed and sorted, the output directory is new and empty
BatchInit ==
    /\ \E st \in BatchSizeTypes, n \in BOOLEAN :
          ui = [InitialUi EXCEPT !.size_type = st, !.sizing_with_naming = n]
    /\ size_config = GetSizeConfiguration(ui)
    /\ \E photos \in PhotoLists,
          rows \in IF ui.sizing_with_naming THEN RowLists ELSE {<<>>} :
          batch = [running |-> TRUE, photos |-> photos, rows |-> rows,
                   total_count |-> IF ui.sizing_with_naming
                                   THEN Min(Len(photos), Len(rows))
                                   ELSE Len(photos),
                   i |-> 1, success_count |-> 0, error_count |-> 0,
                   cancel_requested |-> FALSE, cancel_at |-> 0,
                   attempted |-> <<>>, dir |-> NoFiles,
                   output_name |-> NoName, summary |-> NoSummary]
    /\ app = StartedApp
    /\ image = NoImage
    /\ dimensions = NoDimensions
    /\ pixels = NoPixels
    /\ crop = NoCrop
    /\ paste = NoPaste
    /\ outfile = NoFile
    /\ sidefile = NoFile
    /\ opt = NoOpt
    /\ success = FALSE
    /\ stages = <<>>
    /\ events = 0
    /\ pc = "loop"

\* NextPhoto without "if self.cancel_requested.is_set(): break"
NextPhotoIgnoringCancel ==
    /\ pc = "loop"
    /\ IF batch.i > batch.total_count
       THEN /\ pc' = "summary"
            /\ UNCHANGED <<batch, image, dimensions, pixels, crop, paste,
                           outfile, sidefile, opt, success, stages>>
       ELSE LET photo == batch.photos[batch.i]
                clean_name == IF ui.sizing_with_naming
                                 /\ batch.i <= Len(batch.rows)
                              THEN batch.rows[batch.i] ELSE photo.stem
                name == OutputName(batch.dir, clean_name)
                side == SideName(name, photo)
            IN  /\ batch' = [batch EXCEPT !.output_name = name,
                                          !.attempted = Append(@, batch.i)]
                /\ image' = photo
                /\ outfile' = NoFile
                /\ sidefile' = IF side \in DOMAIN batch.dir
                               THEN [exists |-> TRUE, gen |-> 0]
                               ELSE NoFile
                /\ dimensions' = NoDimensions
                /\ pixels' = NoPixels
                /\ crop' = NoCrop
                /\ paste' = NoPaste
                /\ opt' = NoOpt
                /\ success' = FALSE
                /\ stages' = <<>>
                /\ pc' = "check"
    /\ UNCHANGED <<ui, size_config, events, app>>

\* the head of "for i in range(total_count)": the cancel check, the output
\* name and the collision loop, then process_single_photo is entered
NextPhoto ==
    /\ pc = "loop"
    /\ IF batch.i > batch.total_count \/ batch.cancel_requested
       THEN /\ pc' = "summary"
            /\ UNCHANGED <<batch, image, dimensions, pixels, crop, paste,
                           outfile, sidefile, opt, success, stages>>
       ELSE LET photo == batch.photos[batch.i]
                clean_name == IF ui.sizing_with_naming
                                 /\ batch.i <= Len(batch.rows)
                              THEN batch.rows[batch.i] ELSE photo.stem
                name == OutputName(batch.dir, clean_name)
                side == SideName(name, photo)
            IN  /\ batch' = [batch EXCEPT !.output_name = name,
                                          !.attempted = Append(@, batch.i)]
                /\ image' = photo
                /\ outfile' = NoFile
                /\ sidefile' = IF side \in DOMAIN batch.dir
                               THEN [exists |-> TRUE, gen |-> 0]
                               ELSE NoFile
                /\ dimensions' = NoDimensions
                /\ pixels' = NoPixels
                /\ crop' = NoCrop
                /\ paste' = NoPaste
                /\ opt' = NoOpt
                /\ success' = FALSE
                /\ stages' = <<>>
                /\ pc' = "check"
    /\ UNCHANGED <<ui, size_config, events, app>>

\* the output directory after photo i wrote out (at the .jpg path) and side
\* (at the path with the source's suffix); a file is kept as the photo that
\* wrote it last, and side.gen counts the writes of photo i
DirAfter(dir, i, name, out, side_name, side) ==
    LET wrote_out == out.exists
        wrote_side == side.exists /\ side.gen > 0
        names == DOMAIN dir \cup (IF wrote_out THEN {name} ELSE {})
                            \cup (IF wrote_side THEN {side_name} ELSE {})
    IN  [n \in names |->
            IF (wrote_out /\ n = name) \/ (wrote_side /\ n = side_name)
            THEN [owner |-> i]
            ELSE dir[n]]

\* CountPhoto stopping the batch at the first photo that fails
CountPhotoStopOnError ==
    /\ pc = "returned"
    /\ batch' = [batch EXCEPT
                    !.success_count = IF success THEN @ + 1 ELSE @,
                    !.i = @ + 1,
                    !.dir = DirAfter(@, batch.i, batch.output_name, outfile,
                                     SideName(batch.output_name, image),
                                     sidefile)]
    /\ pc' = IF success THEN "loop" ELSE "summary"
    /\ image' = NoImage
    /\ dimensions' = NoDimensions
    /\ pixels' = NoPixels
    /\ crop' = NoCrop
    /\ paste' = NoPaste
    /\ outfile' = NoFile
    /\ sidefile' = NoFile
    /\ success' = FALSE
    /\ stages' = <<>>
    /\ app' = [app EXCEPT !.progress = batch.i]
    /\ UNCHANGED <<ui, size_config, opt, events>>

\* "if success: ... success_count += 1 else: error_count += 1" and the
\* progress update; the locals of the iteration are gone, the files the
\* photo wrote are in the output directory
CountPhoto ==
    /\ pc = "returned"
    /\ batch' = [batch EXCEPT
                    !.success_count = IF success THEN @ + 1 ELSE @,
                    !.error_count = IF success THEN @ ELSE @ + 1,
                    !.i = @ + 1,
                    !.dir = DirAfter(@, batch.i, batch.output_name, outfile,
                                     SideName(batch.output_name, image),
                                     sidefile)]
    /\ pc' = "loop"
    /\ image' = NoImage
    /\ dimensions' = NoDimensions
    /\ pixels' = NoPixels
    /\ crop' = NoCrop
    /\ paste' = NoPaste
    /\ outfile' = NoFile
    /\ sidefile' = NoFile
    /\ success' = FALSE
    /\ stages' = <<>>
    /\ app' = [app EXCEPT !.progress = batch.i]
    /\ UNCHANGED <<ui, size_config, opt, events>>

\* "Sonuçları göster": the counts are reported unless the flag is set
Summary ==
    /\ pc = "summary"
    /\ batch' = [batch EXCEPT !.summary =
                    IF ~batch.cancel_requested
                    THEN [reported |-> TRUE, success |-> batch.success_count,
                          error |-> batch.error_count,
                          total |-> batch.total_count]
                    ELSE NoSummary]
    /\ pc' = "finished"
    /\ UNCHANGED <<ui, size_config, dimensions, pixels, image, crop, paste,
                   outfile, sidefile, opt, success, stages, events, app>>

\* the positions at which a photo is in process_single_photo or being counted
InFlight == {"check", "crop", "fallback", "watermark", "optimize", "returned"}

\* cancel_operation, run by the UI thread while the batch runs; cancel_at
\* notes the photo that was being processed
CancelOperation ==
    /\ batch.running /\ pc # "finished"
    /\ app.cancel_shown /\ pc # "done"
    /\ ~batch.cancel_requested
    /\ batch' = [batch EXCEPT !.cancel_requested = TRUE,
                              !.cancel_at = IF pc \in InFlight THEN batch.i
                                            ELSE 0]
    /\ UNCHANGED <<ui, size_config, dimensions, pixels, image, crop, paste,
                   outfile, sidefile, opt, success, stages, events, app, pc>>

BatchNext ==
    \/ NextPhoto
    \/ CheckInput
    \/ FaceCrop
    \/ FallbackCenterCrop
    \/ Watermark
    \/ OptimizeEnter
    \/ CountPhoto
    \/ Summary
    \/ CancelOperation

SpecBatch == BatchInit /\ [][BatchNext]_vars

\* ------------------------------------------ the window while a batch runs

\* the photos of the batches the window is modelled with: one that can be
\* processed, a zero-byte file and a file that is no image
AppPhotoLists ==
    {l \in PhotoLists :
        \A k \in 1..Len(l) :
            <<l[k].dir, l[k].ext>> \in {<<"x", ".jpg">>, <<"y", ".jpeg">>}}

\* the names the sheet gives the photos
AppRows == [k \in 1..MaxRows |-> IF k % 2 = 1 THEN "n" ELSE "m"]

\* "Boyutlandır ve Kırp" was clicked and start_crop_and_resize_photos has
\* run: the flag is clear, the buttons are disabled, the thread is started.
\* ready says whether the school name, the sheet, its columns, the photo
\* directory and the sizing option are all set (enable_all_buttons enables
\* the button without them); the custom width may be one float() rejects
AppInit ==
    /\ \E we \in BOOLEAN, cw \in {InitialUi.custom_width_var, <<"3", ",", "5">>} :
          ui = [InitialUi EXCEPT !.size_type = "passport",
                                 !.sizing_with_naming = TRUE,
                                 !.watermark_enabled = we,
                                 !.watermark_text = <<"a">>,
                                 !.custom_width_var = cw]
    /\ size_config = NoConfig
    /\ \E photos \in AppPhotoLists :
          batch = [running |-> TRUE, photos |-> photos, rows |-> AppRows,
                   total_count |-> Min(Len(photos), Len(AppRows)),
                   i |-> 1, success_count |-> 0, error_count |-> 0,
                   cancel_requested |-> FALSE, cancel_at |-> 0,
                   attempted |-> <<>>, dir |-> NoFiles,
                   output_name |-> NoName, summary |-> NoSummary,
                   watermark_at_start |-> ui.watermark_enabled]
    /\ \E r \in BOOLEAN : app = [StartedApp EXCEPT !.ready = r]
    /\ image = NoImage
    /\ dimensions = NoDimensions
    /\ pixels = NoPixels
    /\ crop = NoCrop
    /\ paste = NoPaste
    /\ outfile = NoFile
    /\ sidefile = NoFile
    /\ opt = NoOpt
    /\ success = FALSE
    /\ stages = <<>>
    /\ events = 0
    /\ pc = "start"

\* crop_and_resize_photos up to the loop: a missing precondition returns, a
\* get_size_configuration that raises ends in "Genel hata"; both go to the
\* finally clause
BeginBatch ==
    /\ pc = "start"
    /\ IF ~app.ready
       THEN pc' = "finished" /\ UNCHANGED size_config
       ELSE /\ size_config' = GetSizeConfiguration(ui)
            /\ pc' = IF size_config' = Raised THEN "finished" ELSE "loop"
    /\ UNCHANGED <<ui, dimensions, pixels, image, crop, paste, outfile,
                   sidefile, opt, success, stages, events, batch, app>>

\* ScheduleFinished leaving a cancelled operation without its callback
ScheduleFinishedUnlessCancelled ==
    /\ pc = "finished"
    /\ pc' = "done"
    /\ app' = IF batch.cancel_requested THEN app
              ELSE [app EXCEPT !.after = @ + 1, !.scheduled = @ + 1]
    /\ UNCHANGED <<ui, size_config, dimensions, pixels, image, crop, paste,
                   outfile, sidefile, opt, success, stages, events, batch>>

\* "finally: self.root.after(0, self.operation_finished)": the worker ends
ScheduleFinished ==
    /\ pc = "finished"
    /\ pc' = "done"
    /\ app' = [app EXCEPT !.after = @ + 1, !.scheduled = @ + 1]
    /\ UNCHANGED <<ui, size_config, dimensions, pixels, image, crop, paste,
                   outfile, sidefile, opt, success, stages, events, batch>>

\* operation_finished, run by the Tk loop for a queued callback
OperationFinished ==
    /\ app.after > 0
    /\ app' = [app EXCEPT !.after = @ - 1, !.cancel_shown = FALSE,
                          !.crop_resize_button = "normal",
                          !.action_buttons = "normal", !.progress = 0,
                          !.current_operation = "None"]
    /\ UNCHANGED <<ui, size_config, dimensions, pixels, image, crop, paste,
                   outfile, sidefile, opt, success, stages, events, batch, pc>>

\* "Kontrol Et": handle_check_button_click and check_counts, which enables
\* the rename, PDF and ID card buttons when there are rows and photos, and
\* ends with update_crop_resize_button_state
CheckCounts ==
    /\ events < MaxUiEvents
    /\ app.ready
    /\ app' = [app EXCEPT
                  !.action_buttons =
                      IF Min(Len(batch.rows), Len(batch.photos)) > 0
                      THEN "normal" ELSE "disabled",
                  !.crop_resize_button = "normal"]
    /\ events' = events + 1
    /\ UNCHANGED <<ui, size_config, dimensions, pixels, image, crop, paste,
                   outfile, sidefile, opt, success, stages, batch, pc>>

\* a click on an enabled action button: handle_*_button_click calls
\* start_*, which clears the flag, disables the buttons, shows the cancel
\* button and starts a thread; a thread started here is modelled by its
\* start and its end only
StartOperation ==
    /\ events < MaxUiEvents
    /\ app.crop_resize_button = "normal" \/ app.action_buttons = "normal"
    /\ batch' = [batch EXCEPT !.cancel_requested = FALSE]
    /\ app' = [app EXCEPT !.crop_resize_button = "disabled",
                          !.action_buttons = "disabled",
                          !.cancel_shown = TRUE,
                          !.current_operation = "Thread",
                          !.others = @ + 1]
    /\ events' = events + 1
    /\ UNCHANGED <<ui, size_config, dimensions, pixels, image, crop, paste,
                   outfile, sidefile, opt, success, stages, pc>>

\* the finally clause of a thread StartOperation started
OtherOperationEnds ==
    /\ app.others > 0
    /\ app' = [app EXCEPT !.others = @ - 1, !.after = @ + 1]
    /\ UNCHANGED <<ui, size_config, dimensions, pixels, image, crop, paste,
                   outfile, sidefile, opt, success, stages, events, batch, pc>>

\* the user ticks or unticks the watermark checkbox
ToggleWatermark ==
    /\ events < MaxUiEvents
    /\ ui' = [ui EXCEPT !.watermark_enabled = ~@]
    /\ events' = events + 1
    /\ UNCHANGED <<size_config, dimensions, pixels, image, crop, paste,
                   outfile, sidefile, opt, success, stages, batch, app, pc>>

\* the steps of the thread of the batch
WorkerNext ==
    \/ BeginBatch
    \/ NextPhoto
    \/ CheckInput
    \/ FaceCrop
    \/ FallbackCenterCrop
    \/ Watermark
    \/ OptimizeEnter
    \/ CountPhoto
    \/ Summary
    \/ ScheduleFinished

\* the steps of the Tk thread and of the other threads
AppNext ==
    \/ WorkerNext
    \/ CancelOperation
    \/ OperationFinished
    \/ CheckCounts
    \/ StartOperation
    \/ OtherOperationEnds
    \/ ToggleWatermark

SpecApp == AppInit /\ [][AppNext]_vars

\* the thread of the batch is scheduled, and so is the Tk loop
SpecAppFair ==
    /\ SpecApp
    /\ WF_vars(WorkerNext)
    /\ WF_vars(OperationFinished)

\* ------------------------------------- optimize_file_size called in a row

\* the caller calls optimize_file_size(output_path, size_config) once more
OptimizeAgain ==
    /\ pc = "returned" /\ events < MaxCalls
    /\ events' = events + 1
    /\ opt' = NoOpt
    /\ success' = TRUE
    /\ pc' = "optimize"
    /\ UNCHANGED <<ui, size_config, dimensions, pixels, image, crop, paste,
                   outfile, sidefile, stages>>
    /\ UNCHANGED <<batch, app>>

\* the sizes with a byte budget; the file at the output path, if any, is a
\* JPEG of the target size with any DPI tag
OptInit ==
    /\ \E st \in {"e_okul", "acik_lise", "mebbis", "custom"} :
          ui = [InitialUi EXCEPT !.size_type = st,
                                 !.custom_max_size_var = <<"5", "0">>]
    /\ size_config = GetSizeConfiguration(ui)
    /\ dimensions = BuildDimensions(size_config)
    /\ pixels \in PixelSizes(dimensions)
    /\ outfile \in {NoFile} \cup
                   {File(pixels[1], pixels[2], d, "JPEG", q, size, 1) :
                       d \in {NoDpiTag, 300, 400}, q \in {90, 95},
                       size \in EncodedSizes(size_config)}
    /\ image = NoImage
    /\ crop = NoCrop
    /\ paste = NoPaste
    /\ sidefile = NoFile
    /\ opt = NoOpt
    /\ success = TRUE
    /\ stages = <<>>
    /\ events = 1
    /\ pc = "optimize"
    /\ batch = NoBatch
    /\ app = NoApp

OptNext ==
    \/ OptimizeEnter
    \/ OptimizeLower
    \/ OptimizeRaise
    \/ OptimizeFinish
    \/ OptimizeAgain

SpecOpt == OptInit /\ [][OptNext]_vars

\* the file at the output path has a size within [min_kb, max_kb]
FileInRange ==
    /\ outfile.exists
    /\ size_config.file_size_limit[1] * 1024 <= outfile.size
    /\ outfile.size <= size_config.file_size_limit[2] * 1024

\* C10: optimize_file_size called on a file whose size is within
\* [min_kb, max_kb] returns success at once and leaves the file as it is,
\* and so does every further call in a row.
C10_InRangeFileIsLeftAlone ==
    [][(FileInRange /\ pc \in {"optimize", "returned"}) =>
          /\ outfile' = outfile
          /\ pc = "optimize" => (pc' = "returned" /\ success' /\ opt' = NoOpt)]_vars

C10_Witness ==
    /\ pc = "returned" /\ events >= 3
    /\ FileInRange /\ success
    /\ outfile.gen = 1 /\ opt = NoOpt
    /\ outfile.size = size_config.file_size_limit[2] * 1024

\* --------------------------------------------------------------- the claims

BiometricWhite ==
    /\ Get(size_config, "force_biometric", FALSE)
    /\ Get(size_config, "white_background", FALSE)
    /\ image.faces # <<>>

CenterCropUsed ==
    pc = "watermark" /\ image.faces = <<>> /\ success

\* C8: for a source with no detected face, the crop region used is centered
\* in the source, lies inside it, spans its full width or its full height,
\* and has the target's aspect ratio up to one pixel of truncation in the
\* computed side.
C8_CenterCropIsCenteredMaximal ==
    CenterCropUsed =>
        /\ crop.x >= 0 /\ crop.y >= 0
        /\ crop.x + crop.w <= image.width /\ crop.y + crop.h <= image.height
        /\ crop.x = (image.width - crop.w) \div 2
        /\ crop.y = (image.height - crop.h) \div 2
        /\ IF image.width * pixels[2] > pixels[1] * image.height
           THEN /\ crop.h = image.height
                /\ crop.w * pixels[2] <= image.height * pixels[1]
                /\ image.height * pixels[1] <= (crop.w + 1) * pixels[2]
           ELSE /\ crop.w = image.width
                /\ crop.h * pixels[1] <= image.width * pixels[2]
                /\ image.width * pixels[2] <= (crop.h + 1) * pixels[1]

C8_Witness ==
    /\ CenterCropUsed
    /\ crop.x > 0
    /\ crop.w * pixels[2] < image.height * pixels[1]

\* C9: for a face box inside the image, the region crop_face_auto,
\* crop_face_biometric_acik_lise and crop_face_biometric_mebbis compute lies
\* inside the image and has a positive width and height.
C9_FaceRegionInsideImage ==
    (pc \in {"watermark", "fallback"} /\ image.faces # <<>>) =>
        /\ 0 <= crop.x /\ 0 <= crop.y
        /\ crop.x + crop.w <= image.width
        /\ crop.y + crop.h <= image.height
        /\ crop.w > 0 /\ crop.h > 0

C9_Witness ==
    /\ pc = "watermark" /\ image.faces # <<>>
    /\ ui.size_type = "custom"
    /\ crop.x > 0 /\ crop.y = 0
    /\ crop.x + crop.w = image.width

\* C4: every image a successful process_single_photo has written has exactly
\* the pixel width and height to_pixels returned, whichever path wrote it
\* (face crop, biometric crop in either compositor branch, center crop) and
\* after the watermark and the size optimization.
C4_OutputHasTargetSize ==
    /\ \A f \in {outfile, sidefile} :
           f.exists => f.width = pixels[1] /\ f.height = pixels[2]
    /\ (pc = "returned" /\ success) => outfile.exists \/ sidefile.exists

C4_Witness ==
    /\ pc = "returned" /\ success
    /\ paste.branch = "aspect"
    /\ stages = <<"locate", "plan", "compose", "watermark", "optimize">>
    /\ opt # NoOpt /\ opt.encodes > 1
    /\ outfile.width = 394 /\ outfile.height = 512

\* C5: when process_single_photo returns success, the DPI tag of the file it
\* wrote is max(dpi, min_dpi) of the size configuration (dpi when min_dpi is
\* unset), on every path and with or without watermark and optimization.
C5_OutputDpiIsEffectiveDpi ==
    (pc = "returned" /\ success) =>
        \A f \in {outfile, sidefile} :
            f.exists => f.dpi = EffectiveDpi(dimensions)


\* the sizes the optimizer's encodes produced do not decrease with the quality
NonDecreasing(h) ==
    \A i \in 1..Len(h), j \in 1..Len(h) :
        h[i].quality <= h[j].quality => h[i].size <= h[j].size

SearchReturned == pc = "returned" /\ opt # NoOpt

\* C11: optimize_file_size called on a file larger than max_kb returns with
\* a final size of at most max_kb or with 20 as the quality of its last
\* encode, for any sizes the encoder produces that do not decrease with the
\* quality, the final raise-quality encode included.
C11_EndsWithinMaxOrAtQuality20 ==
    (SearchReturned /\ opt.given > MaxBytes(size_config)
                    /\ NonDecreasing(opt.history)) =>
        outfile.size <= MaxBytes(size_config) \/ outfile.quality = 20

\* C12 as stated: for every size configuration with a byte budget,
\* optimize_file_size makes at most 13 passes of its re-encode loop.
C12_AtMost13Iterations ==
    (pc = "opt_loop") => opt.encodes <= 13

\* C12 amended: optimize_file_size makes at most (quality - 20) / 5 passes of
\* its lowering loop (13 for E-Okul, 14 for Acik Lise and MEBBIS, 15 for the
\* custom size) and at most one more encode, the raise-quality one.
C12_IterationsBoundedByQuality ==
    (opt # NoOpt) =>
        /\ pc = "opt_loop" =>
              /\ opt.encodes = (opt.original_quality - opt.quality) \div 5
              /\ opt.encodes <= (opt.original_quality - 20) \div 5
        /\ opt.encodes <= (opt.original_quality - 20) \div 5 + 1
        /\ opt.original_quality = 85 => opt.encodes <= 14
        /\ opt.original_quality = 90 => opt.encodes <= 15
        /\ opt.original_quality = 95 => opt.encodes <= 16

C12_Witness ==
    /\ SearchReturned
    /\ ui.size_type = "acik_lise"
    /\ opt.encodes = 15
    /\ opt.quality = 40

\* C13: when the budget is not reached (the final size is below min_kb or
\* above max_kb) and nothing failed, optimize_file_size returns success, the
\* file is kept and process_single_photo reports the photo as successful.
C13_MissedBudgetIsNoFailure ==
    (SearchReturned /\ ~InBudget(size_config, outfile.size)) =>
        success /\ outfile.exists

C13_Witness ==
    /\ SearchReturned
    /\ outfile.size > MaxBytes(size_config)
    /\ opt.quality = 20
    /\ success /\ outfile.exists

\* stage a comes before stage b wherever both occurred
Before(a, b) ==
    \A i \in 1..Len(stages), j \in 1..Len(stages) :
        (stages[i] = a /\ stages[j] = b) => i < j

Occurred(a) == \E i \in 1..Len(stages) : stages[i] = a

BudgetAndWatermark ==
    /\ Get(size_config, "file_size_limit", NoLimit) # NoLimit
    /\ ui.watermark_enabled

BatchEnded == batch.running /\ pc = "finished"

\* C15: in a batch that is not cancelled every photo index is attempted
\* exactly once and in order, whatever the earlier photos returned, and
\* after each iteration success_count + error_count is the number of photos
\* attempted so far
C15_EveryPhotoAttemptedOnce ==
    batch.running =>
        /\ \A k \in 1..Len(batch.attempted) : batch.attempted[k] = k
        /\ pc = "loop" =>
              batch.success_count + batch.error_count = Len(batch.attempted)
        /\ (pc \in {"summary", "finished"} /\ ~batch.cancel_requested) =>
              /\ Len(batch.attempted) = batch.total_count
              /\ batch.success_count + batch.error_count = batch.total_count

\* a batch of three photos whose first photo failed and whose last succeeded
C15_Witness ==
    /\ BatchEnded /\ ~batch.cancel_requested
    /\ batch.total_count = 3
    /\ ~batch.photos[1].exists
    /\ batch.attempted = <<1, 2, 3>>
    /\ batch.error_count >= 1 /\ batch.success_count >= 1

\* C16: whenever a batch ends, cancelled or not, named from the sheet or
\* not, a summary is reported whose success and failure counts add up to
\* the number of photos found in the input directory
C16_SummaryAccountsForEveryPhoto ==
    BatchEnded =>
        /\ batch.summary.reported
        /\ batch.summary.success + batch.summary.error = Len(batch.photos)

\* C17: when the flag is set while photo cancel_at is being processed, no
\* photo after it is started, the photo is counted, its output is in the
\* output directory when it succeeded, and no file leaves the directory
C17_CancelStopsAfterCurrentPhoto ==
    [][(batch.running /\ batch'.cancel_at > 0) =>
          /\ \A k \in 1..Len(batch'.attempted) :
                batch'.attempted[k] <= batch'.cancel_at
          /\ pc' \in {"loop", "summary", "finished"} =>
                batch'.success_count + batch'.error_count = batch'.cancel_at
          /\ (pc = "returned" /\ pc' = "loop" /\ success) =>
                \E n \in {batch.output_name,
                          SideName(batch.output_name, image)} :
                    /\ n \in DOMAIN batch'.dir
                    /\ batch'.dir[n].owner = batch.i
          /\ DOMAIN batch.dir \subseteq DOMAIN batch'.dir]_vars

\* the flag was set during the first of three photos: that photo's output is
\* there, and the other two were never started
C17_Witness ==
    /\ BatchEnded /\ batch.cancel_at = 1
    /\ batch.total_count = 3
    /\ batch.attempted = <<1>>
    /\ batch.success_count = 1
    /\ \E n \in DOMAIN batch.dir : batch.dir[n].owner = 1

\* C18: no step of a batch overwrites or removes a file of the output
\* directory, for every source suffix, for equal stems in different
\* sub-directories and in both naming modes
C18_NoOutputOverwritten ==
    [][batch.running =>
          \A n \in DOMAIN batch.dir :
              n \in DOMAIN batch'.dir /\ batch'.dir[n] = batch.dir[n]]_vars

\* C19: a readable source in which no face is detected is centre-cropped
\* and process_single_photo returns success, for every size configuration
C19_DetectionMissSucceeds ==
    (/\ pc = "returned" /\ ~batch.running
     /\ image.exists /\ ~image.empty /\ image.readable
     /\ image.faces = <<>>) =>
        success /\ Occurred("center")

\* the source of the photo in process is missing or a zero-byte file
NoInput == ~image.exists \/ image.empty

\* C20: for a missing or zero-byte source process_single_photo returns
\* failure having run no stage and written no file; the batch counts one
\* error, leaves the output directory as it is and goes on with the loop,
\* which starts the next photo unless the flag is set
C20_MissingSourceIsOneError ==
    [][batch.running =>
          /\ (pc' = "returned" /\ NoInput') =>
                /\ ~success' /\ stages' = <<>>
                /\ ~outfile'.exists
                /\ sidefile'.exists => sidefile'.gen = 0
          /\ (pc = "returned" /\ NoInput) =>
                /\ pc' = "returned"
                   \/ /\ pc' = "loop"
                      /\ batch'.error_count = batch.error_count + 1
                      /\ batch'.success_count = batch.success_count
                      /\ batch'.i = batch.i + 1
                      /\ batch'.dir = batch.dir
          /\ (pc = "loop" /\ pc' # "loop" /\ ~batch.cancel_requested
                /\ batch.i <= batch.total_count) =>
                /\ pc' = "check"
                /\ image' = batch.photos[batch.i]]_vars

\* a zero-byte photo was counted as an error and the photo after it
\* succeeded
C20_Witness ==
    /\ BatchEnded /\ ~batch.cancel_requested
    /\ batch.total_count >= 2
    /\ batch.photos[1].exists /\ batch.photos[1].empty
    /\ batch.error_count = 1
    /\ batch.success_count = batch.total_count - 1
    /\ batch.attempted[2] = 2

\* ------------------------------------------------- the spec's scenarios

\* the source of scenario A: 1200 x 1600 with the face box (400, 300, 300, 400)
ScenarioASource ==
    /\ image.exists /\ ~image.empty /\ image.readable
    /\ image.width = 1200 /\ image.height = 1600
    /\ image.faces = <<FaceBox(400, 300, 300, 400)>>

\* C21: E-Okul resolves to 413 x 531 px and passport to 413 x 413 px, and
\* every file written for the scenario A source under E-Okul is 413 x 531
C21_ScenarioSizesAreExact ==
    (~batch.running /\ pc # "check" /\ dimensions # NoDimensions) =>
        /\ ui.size_type = "e_okul" => pixels = <<413, 531>>
        /\ ui.size_type = "passport" => pixels = <<413, 413>>
        /\ (ui.size_type = "e_okul" /\ ScenarioASource) =>
              \A f \in {outfile, sidefile} :
                  f.exists => f.width = 413 /\ f.height = 531

\* scenario A was processed with E-Okul and its .jpg is 413 x 531
C21_Witness ==
    /\ ~batch.running /\ pc = "returned" /\ success
    /\ ui.size_type = "e_okul" /\ ScenarioASource
    /\ Occurred("plan")
    /\ outfile.exists /\ outfile.width = 413 /\ outfile.height = 531

\* C22: the resolved pixel dimensions are positive: for every configuration
\* get_size_configuration returns, to_pixels gives width >= 1 and height >= 1
C22_PixelsArePositive ==
    pc = "sized" => pixels[1] >= 1 /\ pixels[2] >= 1

\* ------------------------------------------------ the raise-quality step

\* C23: whenever the size at the end of the quality-decrement phase is below
\* min_kb, the quality is raised, to at most 95, and the file is re-encoded
\* exactly once, also for a file that was below min_kb from the start
C23_SmallFileIsRaisedOnce ==
    [][(/\ pc = "opt_loop" /\ pc' = "opt_final"
        /\ opt.current_size < MinBytes(size_config)) =>
          /\ opt'.encodes = opt.encodes + 1
          /\ opt'.quality > opt.quality /\ opt'.quality <= 95]_vars

\* ------------------------------------------------ the choice of the face

\* the region in crop is one the planner gives for face f
PlannedFrom(f) ==
    crop \in FaceCropPlans(f, image.width, image.height,
                           SelectedPadding(size_config, ui))

\* C24: the planners plan the crop from a face whose area is at least that
\* of every detected face, and of the faces of that area from the one that
\* is first in the detector's list
C24_LargestFirstFaceIsPlanned ==
    (Occurred("plan") /\ ~Occurred("center")) =>
        \E i \in 1..Len(image.faces) :
            /\ \A j \in 1..Len(image.faces) :
                   FaceArea(image.faces[j]) <= FaceArea(image.faces[i])
            /\ \A j \in 1..(i - 1) :
                   FaceArea(image.faces[j]) < FaceArea(image.faces[i])
            /\ PlannedFrom(image.faces[i])

\* two different faces of equal area, and the region planned is one for the
\* first and none for the second
C24_Witness ==
    /\ Occurred("plan") /\ ~Occurred("center")
    /\ Len(image.faces) = 2
    /\ image.faces[1] # image.faces[2]
    /\ FaceArea(image.faces[1]) = FaceArea(image.faces[2])
    /\ PlannedFrom(image.faces[1]) /\ ~PlannedFrom(image.faces[2])

\* ------------------------------------------------ padding at the edges

\* C25: the planned region lies within the face box expanded by the profile
\* padding, [x - pad_w, x + w + pad_w] x [y - pad_top, y + h + pad_bottom],
\* for every face box and image size, also for a face nearer to the left
\* or top edge than the padding
C25_RegionWithinPaddedFace ==
    (Occurred("plan") /\ ~Occurred("center")) =>
        LET f == LargestFace(image.faces)
            pad == SelectedPadding(size_config, ui)
        IN  \E e1 \in MulChoices(f.w, pad.side.num, pad.side.den),
               e2 \in MulChoices(f.h, pad.top.num, pad.top.den),
               e3 \in MulChoices(f.h, pad.bottom.num, pad.bottom.den) :
               LET pad_w == TruncMul(f.w, pad.side.num, pad.side.den, e1)
                   pad_top == TruncMul(f.h, pad.top.num, pad.top.den, e2)
                   pad_bottom == TruncMul(f.h, pad.bottom.num,
                                          pad.bottom.den, e3)
               IN  /\ f.x - pad_w <= crop.x
                   /\ crop.x + crop.w <= f.x + f.w + pad_w
                   /\ f.y - pad_top <= crop.y
                   /\ crop.y + crop.h <= f.y + f.h + pad_bottom

\* ------------------------------------------------- the output path

\* C29: whenever process_single_photo returns success, a file exists at the
\* .jpg output path the caller passed, for every source suffix and in both
\* naming modes
C29_SuccessLeavesOutputFile ==
    (~batch.running /\ pc = "returned" /\ success) => outfile.exists

\* ------------------------------------------------- the window and the batch

\* C26: the target is fixed when the batch starts: the size configuration
\* does not change once fetched, every photo gets the dimensions built from
\* it, and a photo is stamped exactly when the watermark was enabled at the
\* start of the batch (and the photo succeeded, its file is there and the
\* text is not blank), whatever is changed in the window in between
C26_TargetFixedAtBatchStart ==
    [][batch.running =>
          /\ pc # "start" => size_config' = size_config
          /\ (pc = "check" /\ pc' = "crop") =>
                dimensions' = BuildDimensions(size_config)
          /\ (pc = "watermark" /\ pc' = "optimize") =>
                (stages' # stages) =
                    (/\ batch.watermark_at_start /\ success
                     /\ outfile.exists /\ ui.watermark_text # <<>>)]_vars

\* the thread of the batch has not reached its finally clause
WorkerAlive == pc # "done"

\* C27: at most one operation thread exists at any time, and from the start
\* of an operation until its operation_finished has run no action button is
\* enabled, whatever is done in the window in between
C27_OneOperationAtATime ==
    /\ (IF WorkerAlive THEN 1 ELSE 0) + app.others <= 1
    /\ app.scheduled = 0 =>
          /\ app.crop_resize_button = "disabled"
          /\ app.action_buttons = "disabled"

\* a step that runs a queued operation_finished
RunsOperationFinished == app'.after = app.after - 1

C30_CancelStaysUntilObserved ==
    [][(batch.running /\ batch.cancel_requested
        /\ pc \notin {"finished", "done"}) =>
          /\ batch'.cancel_requested
          /\ pc = "loop" => pc' # "check"
          /\ pc' = "finished" => ~batch'.summary.reported]_vars

====
